---------------------------- MODULE Spec2Model ----------------------------
(***************************************************************************)
(* A model of the ray tracer of src/src/main.rs.                           *)
(*                                                                         *)
(* A Float (f64) value is modelled by the rational <<n, d>> it holds, in   *)
(* lowest terms with d a power of two.  An operation of f64 whose exact    *)
(* result is such a value returns it unrounded, and the model returns the  *)
(* same value.  An operation whose result f64 would round (1/3, 0.1 + 0.2, *)
(* the square root of 2) has no value in the model (Operand below), as has *)
(* a zero-length normalize (a NaN in the code): every scene, ray and colour *)
(* the specifications draw keeps the computation within the values f64     *)
(* holds exactly, where the model and the program agree bit for bit.       *)
(* The literals 0.1 and 0.0001 are only compared with, never computed      *)
(* with; they are the rationals 1/10 and 1/10000, which compare with every *)
(* value of the model as their f64 neighbours do.                          *)
(***************************************************************************)
EXTENDS Integers, Sequences, FiniteSets, TLC

VARIABLES pc, scene, input, output, hit, colour, calls, stack, result,
          overflowed

vars == <<pc, scene, input, output, hit, colour, calls, stack, result,
          overflowed>>

\* F of the value of v: v is evaluated once, as by a `let` of the program.
LetIn(v, F(_)) == CHOOSE r \in {F(x) : x \in {v}} : TRUE

(***************************************************************************)
(* Rationals                                                               *)
(***************************************************************************)
Abs(n) == IF n < 0 THEN -n ELSE n

RECURSIVE GCD(_, _)
GCD(a, b) == IF b = 0 THEN a ELSE GCD(b, a % b)

\* The rational n/d in lowest terms, d # 0.
Rat(n, d) ==
    LET s == IF d < 0 THEN -1 ELSE 1
        g == GCD(Abs(n), Abs(d))
    IN  <<(s * n) \div g, (s * d) \div g>>

I(n) == <<n, 1>>

\* Exact sum, difference, product and quotient; common factors are cancelled
\* before multiplying.
QAdd(a, b) ==
    LET g == GCD(a[2], b[2])
    IN  Rat(a[1] * (b[2] \div g) + b[1] * (a[2] \div g), (a[2] \div g) * b[2])
QNeg(a)    == <<-a[1], a[2]>>
QSub(a, b) == QAdd(a, QNeg(b))
QMul(a, b) ==
    LET g1 == GCD(Abs(a[1]), b[2])
        g2 == GCD(Abs(b[1]), a[2])
    IN  Rat((a[1] \div g1) * (b[1] \div g2), (a[2] \div g2) * (b[2] \div g1))
QDiv(a, b) == QMul(a, Rat(b[2], b[1]))

\* <, <= and > of f64 on finite values.
RLt(a, b)  ==
    LET g == GCD(a[2], b[2])
    IN  a[1] * (b[2] \div g) < b[1] * (a[2] \div g)
RLe(a, b)  == ~RLt(b, a)
RGt(a, b)  == RLt(b, a)

RECURSIVE ISqrtBetween(_, _, _)
ISqrtBetween(k, lo, hi) ==
    IF lo >= hi THEN lo
    ELSE LET mid == (lo + hi + 1) \div 2
         IN  IF mid * mid <= k THEN ISqrtBetween(k, mid, hi)
                               ELSE ISqrtBetween(k, lo, mid - 1)

\* The largest s with s*s <= k.
ISqrt(k) == ISqrtBetween(k, 0, IF k < 46340 THEN k ELSE 46340)

IsSquare(k) == k >= 0 /\ ISqrt(k) * ISqrt(k) = k

\* A rational that is the square of a rational.
QIsSquare(a) == IsSquare(a[1]) /\ IsSquare(a[2])

\* The square root of a square of a rational.
QSqrt(a) == CHOOSE r \in {Rat(ISqrt(a[1]), ISqrt(a[2]))} : QIsSquare(a)

(***************************************************************************)
(* Float = f64                                                             *)
(***************************************************************************)
RECURSIVE IsPowerOfTwo(_)
IsPowerOfTwo(d) == d = 1 \/ (d > 1 /\ d % 2 = 0 /\ IsPowerOfTwo(d \div 2))

\* A rational that f64 holds exactly.
IsF64(a) == IsPowerOfTwo(a[2])

\* An operand: a is evaluated once, and is a value of f64.
Operand(a) == {f \in {a} : IsF64(f)}

\* +, -, * and / of f64 where the exact result is a value of f64.
RAdd(a, b) == CHOOSE r \in {QAdd(x, y) : x \in Operand(a), y \in Operand(b)} : IsF64(r)
RNeg(a)    == CHOOSE r \in {QNeg(x) : x \in Operand(a)} : TRUE
RSub(a, b) == CHOOSE r \in {QSub(x, y) : x \in Operand(a), y \in Operand(b)} : IsF64(r)
RMul(a, b) == CHOOSE r \in {QMul(x, y) : x \in Operand(a), y \in Operand(b)} : IsF64(r)
RDiv(a, b) == CHOOSE r \in {QDiv(x, y) : x \in Operand(a), y \in Operand(b)} : IsF64(r)

\* f64::sqrt where the exact root is a value of f64.
Sqrt(a) == CHOOSE r \in {QSqrt(x) : x \in Operand(a)} : IsF64(r)

RECURSIVE RPow(_, _)
\* f64::powf for an exponent that is a natural number.
RPow(a, n) == IF n = 0 THEN I(1) ELSE RMul(a, RPow(a, n - 1))

(***************************************************************************)
(* FVec = na::Vector3<f64>                                                 *)
(***************************************************************************)
Vec(x, y, z) == <<I(x), I(y), I(z)>>

FVecZeros == Vec(0, 0, 0)

UP == Vec(0, 0, 1)

VAdd(a, b) == <<RAdd(a[1], b[1]), RAdd(a[2], b[2]), RAdd(a[3], b[3])>>
VSub(a, b) == <<RSub(a[1], b[1]), RSub(a[2], b[2]), RSub(a[3], b[3])>>
VScale(k, a) == <<RMul(k, a[1]), RMul(k, a[2]), RMul(k, a[3])>>
Dot(a, b) == RAdd(RAdd(RMul(a[1], b[1]), RMul(a[2], b[2])), RMul(a[3], b[3]))
Cross(a, b) ==
    <<RSub(RMul(a[2], b[3]), RMul(a[3], b[2])),
      RSub(RMul(a[3], b[1]), RMul(a[1], b[3])),
      RSub(RMul(a[1], b[2]), RMul(a[2], b[1]))>>
ComponentMul(a, b) == <<RMul(a[1], b[1]), RMul(a[2], b[2]), RMul(a[3], b[3])>>
NormSquared(a) == Dot(a, a)
Norm(a) == Sqrt(NormSquared(a))
Normalize(a) == LET n == Norm(a)
                IN  <<RDiv(a[1], n), RDiv(a[2], n), RDiv(a[3], n)>>

(***************************************************************************)
(* Option<T>                                                               *)
(***************************************************************************)
None == [some |-> FALSE]
Some(x) == [some |-> TRUE, val |-> x]

(***************************************************************************)
(* Ray                                                                     *)
(***************************************************************************)
Ray(o, d) == [origin |-> o, direction |-> d]

extend(ray, t) == VAdd(ray.origin, VScale(t, ray.direction))

(***************************************************************************)
(* Shape::intersection                                                     *)
(***************************************************************************)
Sphere(c, r) == [type |-> "Sphere", centre |-> c, radius |-> r]
Plane(p, n) == [type |-> "Plane", point |-> p, normal |-> n]

Intersection(t, pos, normal) == [t |-> t, pos |-> pos, normal |-> normal]

\* .filter(|t| *t > min_distance), and the plane's `t <= min_distance`.
Qualifies(t, min_distance) == RGt(t, min_distance)

\* As SmallestQualifying, with max_by in place of min_by.
LargestQualifying(t1, t2, min_distance) ==
    LET q1 == Qualifies(t1, min_distance)
        q2 == Qualifies(t2, min_distance)
    IN  IF q1 /\ q2 THEN Some(IF RLt(t1, t2) THEN t2 ELSE t1)
        ELSE IF q1 THEN Some(t1)
        ELSE IF q2 THEN Some(t2)
        ELSE None

\* [t1, t2].iter().filter(..).min_by(partial_cmp): the first of the least.
SmallestQualifying(t1, t2, min_distance) ==
    LET q1 == Qualifies(t1, min_distance)
        q2 == Qualifies(t2, min_distance)
    IN  IF q1 /\ q2 THEN Some(IF RLt(t2, t1) THEN t2 ELSE t1)
        ELSE IF q1 THEN Some(t1)
        ELSE IF q2 THEN Some(t2)
        ELSE None

SphereIntersection(centre, radius, ray, min_distance) ==
    LET a == NormSquared(ray.direction)
        difference == VSub(ray.origin, centre)
        b == RMul(I(2), Dot(ray.direction, difference))
        c == RSub(NormSquared(difference), RMul(radius, radius))
        discriminant == RSub(RMul(b, b), RMul(RMul(I(4), a), c))
    IN  IF RLt(discriminant, I(0)) THEN None
        ELSE LET t1 == RDiv(RAdd(RNeg(b), Sqrt(discriminant)), RMul(I(2), a))
                 t2 == RDiv(RSub(RNeg(b), Sqrt(discriminant)), RMul(I(2), a))
                 best == SmallestQualifying(t1, t2, min_distance)
             IN  IF ~best.some THEN None
                 ELSE LET point == extend(ray, best.val)
                          normal == Normalize(VSub(point, centre))
                      IN  Some(Intersection(best.val, point, normal))

PlaneIntersection(point, normal, ray, min_distance) ==
    LET n_dot_d == Dot(normal, ray.direction)
    IN  IF n_dot_d = I(0) THEN None
        ELSE LET a_minus_p == VSub(point, ray.origin)
                 t == RDiv(Dot(normal, a_minus_p), n_dot_d)
             IN  IF ~Qualifies(t, min_distance) THEN None
                 ELSE Some(Intersection(t, extend(ray, t), normal))

intersection(shape, ray, min_distance) ==
    IF shape.type = "Sphere"
    THEN SphereIntersection(shape.centre, shape.radius, ray, min_distance)
    ELSE PlaneIntersection(shape.point, shape.normal, ray, min_distance)

(***************************************************************************)
(* clamp, channel_float_to_int                                             *)
(***************************************************************************)
clamp(x, min, max) == IF x < min THEN min ELSE IF x > max THEN max ELSE x

RClamp(x, min, max) == IF RLt(x, min) THEN min ELSE IF RGt(x, max) THEN max ELSE x

I32Max == 2147483647
I32Min == -2147483647 - 1

\* `f as i32` with the fraction rounded to nearest, half away from zero.
FloatToI32Rounding(a) ==
    LET q == (2 * Abs(a[1]) + a[2]) \div (2 * a[2])
    IN  clamp(IF a[1] >= 0 THEN q ELSE -q, I32Min, I32Max)

\* `f as i32`: the fraction is dropped (toward zero), the result saturates.
FloatToI32(a) ==
    LET q == IF a[1] >= 0 THEN a[1] \div a[2] ELSE -((-a[1]) \div a[2])
    IN  clamp(q, I32Min, I32Max)

channel_float_to_int(value) ==
    LET integer == FloatToI32(RMul(value, I(255)))
    IN  clamp(integer, 0, 255)


(***************************************************************************)
(* Material, LightSource, SceneObject, Scene                               *)
(***************************************************************************)
Material(colour_, k_diffuse, k_ambient, k_specular, k_reflect, shine) ==
    [colour |-> colour_, k_diffuse |-> k_diffuse, k_ambient |-> k_ambient,
     k_specular |-> k_specular, k_reflect |-> k_reflect, shine |-> shine]

LightSource(colour_, pos) == [colour |-> colour_, pos |-> pos]

SceneObject(material, shape) == [material |-> material, shape |-> shape]

intersect(object, ray, min_distance) ==
    intersection(object.shape, ray, min_distance)

\* .filter_map(|object| object.intersect(..).map(|x| (x, object.material)))
RECURSIVE Candidates(_, _, _)
Candidates(objects, ray, min_distance) ==
    IF objects = <<>> THEN <<>>
    ELSE LET x == intersect(Head(objects), ray, min_distance)
             rest == Candidates(Tail(objects), ray, min_distance)
         IN  IF x.some THEN <<<<x.val, Head(objects).material>>>> \o rest
                       ELSE rest

\* As MinByT, keeping the first candidate whatever its t.
FirstCandidate(cands) == IF cands = <<>> THEN None ELSE Some(Head(cands))

RECURSIVE MinByFrom(_, _)
MinByFrom(best, cands) ==
    IF cands = <<>> THEN best
    ELSE MinByFrom(IF RLt(Head(cands)[1].t, best[1].t) THEN Head(cands) ELSE best,
                   Tail(cands))

\* .min_by(|a, b| a.0.t.partial_cmp(&b.0.t).unwrap()): the first of the least.
MinByT(cands) ==
    IF cands = <<>> THEN None ELSE Some(MinByFrom(Head(cands), Tail(cands)))

_get_intersection(sc, ray, min_distance) ==
    MinByT(Candidates(sc.objects, ray, min_distance))

_get_diffuse_lighting(i, material, light, ray) ==
    LET coeff == RClamp(Dot(i.normal, ray.direction), I(0), I(1))
    IN  VScale(coeff, ComponentMul(light.colour, material.colour))

_get_specular_lighting(i, material, light, ray) ==
    LET l == VSub(light.pos, i.pos)
        v == VSub(ray.origin, i.pos)
        h == Normalize(VAdd(l, v))
        coeff == RPow(Dot(h, i.normal), material.shine)
    IN  VScale(RClamp(coeff, I(0), I(1)), light.colour)

\* The shadow ray of _get_surface_point_colour toward one light.
ShadowRay(i, light) == Ray(i.pos, Normalize(VSub(light.pos, i.pos)))

\* As Occluded, counting only the hits between the point and the light.
OccludedBeforeLight(sc, i, light) ==
    LET t == _get_intersection(sc, ShadowRay(i, light), Rat(1, 10))
    IN  t.some /\ RLt(RMul(t.val[1].t, t.val[1].t), NormSquared(VSub(light.pos, i.pos)))

\* let t = self._get_intersection(&ray, 0.1); t.is_some()
Occluded(sc, i, light) ==
    _get_intersection(sc, ShadowRay(i, light), Rat(1, 10)).some

\* The (light, ray) pairs the filter_map keeps, in the order of the lights.
RECURSIVE Unoccluded(_, _, _)
Unoccluded(sc, i, lights) ==
    IF lights = <<>> THEN <<>>
    ELSE LET rest == Unoccluded(sc, i, Tail(lights))
         IN  IF Occluded(sc, i, Head(lights)) THEN rest
             ELSE <<[light |-> Head(lights), ray |-> ShadowRay(i, Head(lights))]>>
                  \o rest

\* .map(|(light, ray)| diffuse_light + specular_reflectance)
LightColouring(i, material, light, ray) ==
    VAdd(VScale(material.k_diffuse, _get_diffuse_lighting(i, material, light, ray)),
         VScale(material.k_specular, _get_specular_lighting(i, material, light, ray)))

\* .sum()
RECURSIVE SumColouring(_, _, _)
SumColouring(i, material, pairs) ==
    IF pairs = <<>> THEN FVecZeros
    ELSE VAdd(LightColouring(i, material, Head(pairs).light, Head(pairs).ray),
              SumColouring(i, material, Tail(pairs)))

_get_surface_point_colour(sc, i, material) ==
    LET ambient == VScale(material.k_ambient,
                          ComponentMul(sc.ambient_light, material.colour))
        light_dependent_colouring ==
            SumColouring(i, material, Unoccluded(sc, i, sc.lights))
    IN  VAdd(ambient, light_dependent_colouring)

(***************************************************************************)
(* Scene::_get_reflection and Scene::_get_ray_colour                       *)
(***************************************************************************)
MAX_BOUNCES == 10

\* The guard of _get_reflection without the bounce ceiling.
StopsOnlyWhenMatte(material, num_bounces) == material.k_reflect = I(0)

\* The guard of _get_reflection with the ceiling one bounce later.
StopsOneLater(material, num_bounces) ==
    num_bounces > MAX_BOUNCES + 1 \/ material.k_reflect = I(0)

\* if num_bounces > MAX_BOUNCES || material.k_reflect == 0.0
ReflectionStops(material, num_bounces) ==
    num_bounces > MAX_BOUNCES \/ material.k_reflect = I(0)

ReflectedRay(i, ray) ==
    LET ray_proj_normal == VScale(Dot(ray.direction, i.normal), i.normal)
        reflected_ray_direction == VSub(ray.direction, VScale(I(2), ray_proj_normal))
    IN  Ray(i.pos, reflected_ray_direction)

\* `num_bounces + 1` on a u8: the sum wraps at 256 in a release build and
\* panics in a debug build; U8Overflows tells the two cases apart.
U8Overflows(n) == n + 1 > 255
U8Increment(n) == (n + 1) % 256

RECURSIVE _get_ray_colour(_, _, _, _)

_get_reflection(sc, i, material, ray, num_bounces) ==
    IF ReflectionStops(material, num_bounces) THEN FVecZeros
    ELSE LetIn(ReflectedRay(i, ray), LAMBDA reflected_ray :
         LetIn(_get_ray_colour(sc, reflected_ray, Rat(1, 10000),
                               U8Increment(num_bounces)),
               LAMBDA reflected_ray_colour :
                   VScale(material.k_reflect, reflected_ray_colour)))

_get_ray_colour(sc, ray, min_distance, num_bounces) ==
    LetIn(_get_intersection(sc, ray, min_distance), LAMBDA x :
        IF ~x.some THEN sc.default_colour
        ELSE LetIn(_get_surface_point_colour(sc, x.val[1], x.val[2]),
                   LAMBDA object_colour :
             LetIn(_get_reflection(sc, x.val[1], x.val[2], ray, num_bounces),
                   LAMBDA reflection :
                       VAdd(object_colour, reflection))))

(***************************************************************************)
(* Camera                                                                  *)
(***************************************************************************)
get_basis_vectors(camera) ==
    LET u == Normalize(camera.direction)
        v == Cross(u, UP)
        w == Cross(v, u)
    IN  [u |-> u, v |-> v, w |-> w]

\* `count as i64 / 2` taken as the index of the middle pixel, (count - 1) / 2.
HalfCountBelow(count) == I((count - 1) \div 2)

\* `count as i64 / 2`: integer division.
HalfCount(count) == I(count \div 2)

x_screen(camera, x) ==
    RMul(RMul(RDiv(RSub(I(x), HalfCount(camera.screen_columns)),
                   I(camera.screen_columns)),
              camera.screen_width),
         Rat(1, 2))

y_screen(camera, y) ==
    RMul(RMul(RDiv(RSub(I(y), HalfCount(camera.screen_rows)),
                   I(camera.screen_rows)),
              camera.screen_height),
         Rat(-1, 2))

get_ray(camera, x, y) ==
    LET basis == get_basis_vectors(camera)
    IN  Ray(camera.position,
            VAdd(VAdd(VScale(camera.screen_distance, basis.u),
                      VScale(x_screen(camera, x), basis.v)),
                 VScale(y_screen(camera, y), basis.w)))

(***************************************************************************)
(* State shared by the specifications.  Each specification drives the part *)
(* of the program its name says and leaves the other variables idle.       *)
(***************************************************************************)
NoScene == [objects |-> <<>>, lights |-> <<>>]

IdleScene == scene = NoScene
IdleCast == hit = None /\ colour = None /\ calls = <<>>
IdleTrace == stack = <<>> /\ result = None /\ overflowed = FALSE

(***************************************************************************)
(* SpecChannel: channel_float_to_int on one colour channel.                *)
(***************************************************************************)
\* Channel values are the multiples of 1/2^ChannelBits from ChannelMargin
\* below 0 to ChannelMargin above 1; value * 255 is exact on each.
ChannelBits == 6
ChannelMargin == 2

RECURSIVE PowerOfTwo(_)
PowerOfTwo(k) == IF k = 0 THEN 1 ELSE 2 * PowerOfTwo(k - 1)

ChannelInputs ==
    {Rat(k, PowerOfTwo(ChannelBits)) :
        k \in (-ChannelMargin * PowerOfTwo(ChannelBits))
                .. ((1 + ChannelMargin) * PowerOfTwo(ChannelBits))}

ChannelInit ==
    /\ pc = "channel"
    /\ input \in ChannelInputs
    /\ output = None
    /\ IdleScene /\ IdleCast /\ IdleTrace

ChannelStep ==
    /\ pc = "channel"
    /\ output' = Some(channel_float_to_int(input))
    /\ pc' = "done"
    /\ UNCHANGED <<scene, input, hit, colour, calls, stack, result,
                   overflowed>>

SpecChannel == ChannelInit /\ [][ChannelStep]_vars

\* C5 as stated: the channel is clamp(round(value * 255), 0, 255), the
\* product rounded to the nearest integer before the clamp.
C5_RoundsToNearest ==
    pc = "done" =>
        output.val = clamp(FloatToI32Rounding(QMul(input, I(255))), 0, 255)

\* C5 amended: the channel is value * 255 with its fraction dropped, then
\* clamped: 0 below 1/255, 255 from 1 on, and between them the integer n
\* with n <= value * 255 < n + 1.
C5_TruncatesThenClamps ==
    pc = "done" =>
        LET x == QMul(input, I(255))
            n == output.val
        IN  /\ n \in 0 .. 255
            /\ RLt(x, I(0)) => n = 0
            /\ RLe(I(255), x) => n = 255
            /\ (RLe(I(0), x) /\ RLt(x, I(255))) =>
                   (RLe(I(n), x) /\ RLt(x, I(n + 1)))

\* A product with a fraction above one half, such as 3 + 63/64, is encoded
\* as the integer below it.
C5_Witness ==
    /\ pc = "done"
    /\ \E n \in 1 .. 254 :
          /\ RGt(QMul(input, I(255)), Rat(2 * n + 1, 2))
          /\ RLt(QMul(input, I(255)), I(n + 1))
          /\ output = Some(n)

(***************************************************************************)
(* SpecCamera: Camera::get_ray on one camera and pixel.                    *)
(***************************************************************************)
MaxColumns == 5
MaxRows == 4

CameraInputs ==
    [position : {Vec(0, 0, 0), Vec(1, -2, 3)},
     direction : {Vec(0, 1, 0), Vec(0, 3, 0), Vec(2, 0, 0), Vec(0, -4, 0)},
     screen_distance : {I(1)},
     screen_width : {I(2), I(3)},
     screen_height : {I(2)},
     screen_columns : 1 .. MaxColumns,
     screen_rows : 1 .. MaxRows]

\* The quotient (p - count / 2) / count of get_ray is a value of f64.
OffsetIsF64(count, p) == IsF64(Rat(p - (count \div 2), count))

CameraInit ==
    /\ pc = "get_ray"
    /\ \E c \in CameraInputs :
          \E x \in 0 .. (c.screen_columns - 1), y \in 0 .. (c.screen_rows - 1) :
              /\ OffsetIsF64(c.screen_columns, x)
              /\ OffsetIsF64(c.screen_rows, y)
              /\ input = [camera |-> c, x |-> x, y |-> y]
    /\ output = None
    /\ IdleScene /\ IdleCast /\ IdleTrace

CameraStep ==
    /\ pc = "get_ray"
    /\ output' = Some(get_ray(input.camera, input.x, input.y))
    /\ pc' = "done"
    /\ UNCHANGED <<scene, input, hit, colour, calls, stack, result,
                   overflowed>>

SpecCamera == CameraInit /\ [][CameraStep]_vars

\* The screen offsets of the returned ray: its direction is
\* screen_distance * u + x_screen * v + y_screen * w with v and w orthogonal
\* to each other and to u.
OffsetAlong(axis) == QDiv(Dot(output.val.direction, axis), Dot(axis, axis))
\* 2 * count * offset / (factor * extent)
ScaledOffset(offset, count, extent, factor) ==
    QDiv(QMul(I(2 * count), offset), QMul(factor, extent))
ScaledX == ScaledOffset(OffsetAlong(get_basis_vectors(input.camera).v),
                        input.camera.screen_columns, input.camera.screen_width,
                        Rat(1, 2))
ScaledY == ScaledOffset(OffsetAlong(get_basis_vectors(input.camera).w),
                        input.camera.screen_rows, input.camera.screen_height,
                        Rat(-1, 2))

\* C10 as stated: the offsets are centred on the exact halves of the counts,
\* 2*columns*x_screen/(0.5*screen_width) = 2x - columns and
\* 2*rows*y_screen/(-0.5*screen_height) = 2y - rows, for even and odd counts,
\* and the ray starts at the camera position.
C10_ExactHalves ==
    pc = "done" =>
        /\ ScaledX = I(2 * input.x - input.camera.screen_columns)
        /\ ScaledY = I(2 * input.y - input.camera.screen_rows)
        /\ output.val.origin = input.camera.position

\* C10 amended: the offsets are centred on the integer quotients columns div 2
\* and rows div 2: the scaled offsets are 2x - columns and 2y - rows for an
\* even count and 2x - columns + 1 and 2y - rows + 1 for an odd one; the ray
\* starts at the camera position.
C10_IntegerHalves ==
    pc = "done" =>
        /\ ScaledX = I(2 * input.x - input.camera.screen_columns
                          + (input.camera.screen_columns % 2))
        /\ ScaledY = I(2 * input.y - input.camera.screen_rows
                          + (input.camera.screen_rows % 2))
        /\ output.val.origin = input.camera.position

\* The middle pixel of an odd number of columns has x_screen = 0.
C10_Witness ==
    /\ pc = "done"
    /\ input.camera.screen_columns = 3
    /\ input.x = 1
    /\ ScaledX = I(0)

(***************************************************************************)
(* SpecShape: Shape::intersection on one shape, ray and min_distance.      *)
(***************************************************************************)
MaxCoord == 2
MaxRadius == 2

Coords == (-MaxCoord) .. MaxCoord

ShapeInputs ==
    {Sphere(Vec(0, 0, 0), I(r)) : r \in 1 .. MaxRadius}
    \cup {Plane(Vec(0, 0, 0), Vec(0, 0, 1)), Plane(Vec(0, 0, -1), Vec(0, 0, -1)),
          Plane(Vec(1, 0, 0), Vec(2, 0, 0))}

Directions ==
    {Vec(0, 0, 1), Vec(0, 0, -1), Vec(1, 0, 0), Vec(1, 0, 1), Vec(3, 0, -4),
     Vec(0, 2, 0)}

RayInputs == {Ray(Vec(x, 0, z), d) : x \in Coords, z \in Coords, d \in Directions}

\* 0.0 (primary rays), 0.0001 (reflection rays), 0.1 (shadow rays), 1.0
MinDistances == {I(0), Rat(1, 10000), Rat(1, 10), I(1)}

\* Every square root and quotient of the sphere arm is a value of f64.
SphereIsF64(centre, radius, ray, min_distance) ==
    LET a == NormSquared(ray.direction)
        difference == VSub(ray.origin, centre)
        b == RMul(I(2), Dot(ray.direction, difference))
        c == RSub(NormSquared(difference), RMul(radius, radius))
        discriminant == RSub(RMul(b, b), RMul(RMul(I(4), a), c))
    IN  \/ RLt(discriminant, I(0))
        \/ /\ QIsSquare(discriminant)
           /\ LET t1 == QDiv(QAdd(QNeg(b), QSqrt(discriminant)), QMul(I(2), a))
                  t2 == QDiv(QSub(QNeg(b), QSqrt(discriminant)), QMul(I(2), a))
              IN  /\ IsF64(t1) /\ IsF64(t2)
                  /\ LET best == SmallestQualifying(t1, t2, min_distance)
                     IN  best.some =>
                            LET d == VSub(extend(ray, best.val), centre)
                            IN  /\ QIsSquare(NormSquared(d))
                                /\ \A k \in 1 .. 3 :
                                      IsF64(QDiv(d[k], QSqrt(NormSquared(d))))

\* The quotient of the plane arm is a value of f64.
PlaneIsF64(point, normal, ray) ==
    LET n_dot_d == Dot(normal, ray.direction)
    IN  \/ n_dot_d = I(0)
        \/ IsF64(QDiv(Dot(normal, VSub(point, ray.origin)), n_dot_d))

\* The shapes, rays and distances on which Shape::intersection stays within
\* the values f64 holds exactly.
IntersectionIsF64(shape, ray, min_distance) ==
    IF shape.type = "Sphere"
    THEN SphereIsF64(shape.centre, shape.radius, ray, min_distance)
    ELSE PlaneIsF64(shape.point, shape.normal, ray)

ShapeInit ==
    /\ pc = "intersection"
    /\ input \in {i \in [shape : ShapeInputs, ray : RayInputs, min_distance : MinDistances] :
                     IntersectionIsF64(i.shape, i.ray, i.min_distance)}
    /\ output = None
    /\ IdleScene /\ IdleCast /\ IdleTrace

ShapeStep ==
    /\ pc = "intersection"
    /\ output' = intersection(input.shape, input.ray, input.min_distance)
    /\ pc' = "done"
    /\ UNCHANGED <<scene, input, hit, colour, calls, stack, result,
                   overflowed>>

SpecShape == ShapeInit /\ [][ShapeStep]_vars

\* The quadratic of the sphere under test, from the ray and the sphere.
QuadA == NormSquared(input.ray.direction)
QuadB == RMul(I(2), Dot(input.ray.direction, VSub(input.ray.origin, input.shape.centre)))
QuadC == RSub(NormSquared(VSub(input.ray.origin, input.shape.centre)),
              RMul(input.shape.radius, input.shape.radius))
QuadDisc == RSub(RMul(QuadB, QuadB), RMul(I(4), RMul(QuadA, QuadC)))
QuadRoots == {RDiv(RAdd(RNeg(QuadB), Sqrt(QuadDisc)), RMul(I(2), QuadA)),
              RDiv(RSub(RNeg(QuadB), Sqrt(QuadDisc)), RMul(I(2), QuadA))}
QuadQualifying == {r \in QuadRoots : RGt(r, input.min_distance)}
QuadAt(t) == RAdd(RAdd(RMul(QuadA, RMul(t, t)), RMul(QuadB, t)), QuadC)

\* C9: a sphere gives no hit when the discriminant is negative or no root
\* exceeds min_distance; otherwise the hit is at the smallest root that
\* exceeds min_distance, a root of the quadratic, -b/(2a) for a tangent ray,
\* and pos = origin + t * direction.
C9_SphereSmallestRoot ==
    (pc = "done" /\ input.shape.type = "Sphere") =>
        IF RLt(QuadDisc, I(0)) \/ QuadQualifying = {}
        THEN output = None
        ELSE /\ output.some
             /\ output.val.t \in QuadQualifying
             /\ \A r \in QuadQualifying : RLe(output.val.t, r)
             /\ QuadAt(output.val.t) = I(0)
             /\ QuadDisc = I(0) =>
                    output.val.t = RDiv(RNeg(QuadB), RMul(I(2), QuadA))
             /\ \A k \in 1 .. 3 :
                    output.val.pos[k] =
                        RAdd(input.ray.origin[k],
                             RMul(output.val.t, input.ray.direction[k]))

\* A ray that starts inside the sphere (one root negative, one positive)
\* gets the positive root with min_distance = 0.
C9_Witness ==
    /\ pc = "done"
    /\ input.shape.type = "Sphere"
    /\ input.min_distance = I(0)
    /\ RLt(QuadC, I(0))
    /\ \E r \in QuadRoots : RLt(r, I(0))
    /\ output.some
    /\ RGt(output.val.t, I(0))

\* The ray's origin lies on the shape and the ray is not parallel to it.
OriginOnSurface ==
    IF input.shape.type = "Sphere"
    THEN QuadC = I(0)
    ELSE /\ Dot(input.shape.normal, VSub(input.shape.point, input.ray.origin)) = I(0)
         /\ Dot(input.shape.normal, input.ray.direction) # I(0)

\* C7: with min_distance = 0 a surface point at ray parameter t = 0 is
\* returned as the hit (the smallest t >= 0 on the surface).
C7_HitAtRayOrigin ==
    (pc = "done" /\ input.min_distance = I(0) /\ OriginOnSurface) =>
        (output.some /\ output.val.t = I(0))

(***************************************************************************)
(* SpecCast: one ray through a scene: Scene::_get_intersection, then       *)
(* Scene::_get_surface_point_colour at the hit it returns.                 *)
(***************************************************************************)
MaxObjects == 3
MaxLights == 2

White == <<I(1), I(1), I(1)>>
Grey == <<Rat(1, 2), Rat(1, 2), Rat(1, 2)>>
Red == <<I(1), I(0), Rat(1, 4)>>

DefaultCamera ==
    [position |-> Vec(0, 0, 10), direction |-> Vec(0, 0, -1),
     screen_distance |-> I(1), screen_width |-> I(2), screen_height |-> I(2),
     screen_columns |-> 2, screen_rows |-> 2]

\* Along the z axis: a ball on a floor, a second ball above it, a ceiling.
ObjectPool ==
    {SceneObject(Material(Red, Rat(1, 2), Rat(1, 4), Rat(1, 2), I(0), 2),
                 Sphere(Vec(0, 0, 0), I(1))),
     SceneObject(Material(Grey, Rat(3, 4), Rat(1, 2), I(0), I(0), 1),
                 Plane(Vec(0, 0, -1), Vec(0, 0, 1))),
     SceneObject(Material(White, Rat(1, 4), Rat(1, 8), Rat(1, 4), Rat(1, 2), 1),
                 Plane(Vec(0, 0, 6), Vec(0, 0, -1))),
     SceneObject(Material(Grey, I(1), I(1), I(1), I(1), 0),
                 Sphere(Vec(0, 0, 4), I(1)))}

\* Lights on the z axis: between the balls, above the ceiling, below the floor.
LightPool ==
    {LightSource(White, Vec(0, 0, 2)), LightSource(Red, Vec(0, 0, 8)),
     LightSource(Grey, Vec(0, 0, -3))}

\* The sequences of 0 .. n distinct members of a set.
DistinctSeqs(S, n) ==
    {q \in UNION {[1 .. k -> S] : k \in 0 .. n} :
        \A a, b \in DOMAIN q : a # b => q[a] # q[b]}

CastScenes ==
    {[camera |-> DefaultCamera, default_colour |-> Vec(0, 0, 0),
      ambient_light |-> Grey, lights |-> ls, objects |-> os] :
        ls \in DistinctSeqs(LightPool, MaxLights),
        os \in DistinctSeqs(ObjectPool, MaxObjects) \ {<<>>}}

\* Rays along the z axis, a ray that touches the lower ball at its top and a
\* ray that passes above everything.
CastRays ==
    {Ray(Vec(0, 0, 10), Vec(0, 0, -1)), Ray(Vec(0, 0, 2), Vec(0, 0, -1)),
     Ray(Vec(0, 0, 2), Vec(0, 0, 1)), Ray(Vec(0, 0, -3), Vec(0, 0, 2)),
     Ray(Vec(0, 0, 1), Vec(0, 0, -1)), Ray(Vec(-5, 0, 1), Vec(1, 0, 0)),
     Ray(Vec(-5, 0, 10), Vec(1, 0, 0))}

CastInit ==
    /\ pc = "cast"
    /\ scene \in CastScenes
    /\ input \in [ray : CastRays, min_distance : {I(0), Rat(1, 10000)}]
    /\ output = None
    /\ hit = None /\ colour = None /\ calls = <<>>
    /\ IdleTrace

\* self._get_intersection(&ray, min_distance)
Cast ==
    /\ pc = "cast"
    /\ hit' = _get_intersection(scene, input.ray, input.min_distance)
    /\ pc' = IF hit'.some THEN "shade" ELSE "done"
    /\ UNCHANGED <<scene, input, output, colour, calls, stack, result,
                   overflowed>>

\* self._get_surface_point_colour(&i, &m); calls records the (light, ray)
\* arguments of its calls of _get_specular_lighting.
Shade ==
    /\ pc = "shade"
    /\ colour' = Some(_get_surface_point_colour(scene, hit.val[1], hit.val[2]))
    /\ calls' = Unoccluded(scene, hit.val[1], scene.lights)
    /\ pc' = "done"
    /\ UNCHANGED <<scene, input, output, hit, stack, result,
                   overflowed>>

CastNext == Cast \/ Shade

SpecCast == CastInit /\ [][CastNext]_vars

\* The hit of the k-th object of the scene on the ray under test.
ObjectHit(k) == intersection(scene.objects[k].shape, input.ray, input.min_distance)

\* C2: _get_intersection returns None exactly when no object of the scene
\* has a hit beyond min_distance; otherwise it returns the hit of one object
\* together with that object's material, its t exceeds min_distance, and no
\* object has a hit with a smaller t.
C2_NearestHit ==
    pc # "cast" =>
        /\ hit.some <=> \E k \in DOMAIN scene.objects : ObjectHit(k).some
        /\ hit.some =>
              /\ \E k \in DOMAIN scene.objects :
                    /\ ObjectHit(k) = Some(hit.val[1])
                    /\ scene.objects[k].material = hit.val[2]
              /\ RGt(hit.val[1].t, input.min_distance)
              /\ \A k \in DOMAIN scene.objects :
                    ObjectHit(k).some => RLe(hit.val[1].t, ObjectHit(k).val.t)

\* The nearest hit is on the last of three objects that are all hit.
C2_Witness ==
    /\ pc # "cast"
    /\ Len(scene.objects) = 3
    /\ \A k \in 1 .. 3 : ObjectHit(k).some
    /\ hit = Some(<<ObjectHit(3).val, scene.objects[3].material>>)
    /\ RLt(ObjectHit(3).val.t, ObjectHit(1).val.t)
    /\ RLt(ObjectHit(3).val.t, ObjectHit(2).val.t)

\* Some object is hit beyond 0.1 by the ray from the hit point toward light.
ShadowHit(light) ==
    \E k \in DOMAIN scene.objects :
        intersection(scene.objects[k].shape,
                     Ray(hit.val[1].pos,
                         Normalize(VSub(light.pos, hit.val[1].pos))),
                     Rat(1, 10)).some

\* The nearest object the shadow ray toward light hits lies beyond the light.
OccluderBeyond(light) ==
    /\ ShadowHit(light)
    /\ \A k \in DOMAIN scene.objects :
          LET x == intersection(scene.objects[k].shape,
                                Ray(hit.val[1].pos,
                                    Normalize(VSub(light.pos, hit.val[1].pos))),
                                Rat(1, 10))
          IN  x.some => RGt(RMul(x.val.t, x.val.t),
                            NormSquared(VSub(light.pos, hit.val[1].pos)))

AmbientTerm ==
    VScale(hit.val[2].k_ambient, ComponentMul(scene.ambient_light, hit.val[2].colour))

\* The diffuse and specular terms of the lights from the k-th on whose shadow
\* ray has no hit.
RECURSIVE LitTermsFrom(_)
LitTermsFrom(k) ==
    IF k > Len(scene.lights) THEN FVecZeros
    ELSE LET light == scene.lights[k]
             ray == Ray(hit.val[1].pos, Normalize(VSub(light.pos, hit.val[1].pos)))
             term == IF ShadowHit(light) THEN FVecZeros
                     ELSE VAdd(VScale(hit.val[2].k_diffuse,
                                      _get_diffuse_lighting(hit.val[1], hit.val[2], light, ray)),
                               VScale(hit.val[2].k_specular,
                                      _get_specular_lighting(hit.val[1], hit.val[2], light, ray)))
         IN  VAdd(term, LitTermsFrom(k + 1))

\* C3: a light adds its diffuse and specular terms exactly when its shadow
\* ray has no hit beyond 0.1, at whatever distance the hit is (also beyond
\* the light); when every light's shadow ray has a hit, and when there is no
\* light, the colour is the ambient term k_ambient * (ambient_light (*) colour).
C3_BinaryShadow ==
    colour.some =>
        /\ colour.val = VAdd(AmbientTerm, LitTermsFrom(1))
        /\ Len(calls) = Cardinality({k \in DOMAIN scene.lights : ~ShadowHit(scene.lights[k])})
        /\ (\A k \in DOMAIN scene.lights : ShadowHit(scene.lights[k])) =>
              colour.val = AmbientTerm

\* Both lights are shadowed, one of them only by an object beyond it, and
\* the colour is the ambient term.
C3_Witness ==
    /\ colour.some
    /\ Len(scene.lights) = 2
    /\ \A k \in 1 .. 2 : ShadowHit(scene.lights[k])
    /\ \E k \in 1 .. 2 : OccluderBeyond(scene.lights[k])
    /\ colour.val = AmbientTerm
    /\ AmbientTerm # FVecZeros

\* C8: every call of _get_specular_lighting gets a ray whose origin is the
\* origin of the ray that produced the hit, so v = ray.origin - pos points
\* at the viewer and is not zero when the viewer is not at the hit point.
C8_ViewFromIncomingRay ==
    colour.some =>
        \A k \in DOMAIN calls :
            /\ calls[k].ray.origin = input.ray.origin
            /\ input.ray.origin # hit.val[1].pos =>
                  VSub(calls[k].ray.origin, hit.val[1].pos) # FVecZeros

(***************************************************************************)
(* SpecTrace: the call chain _get_ray_colour -> _get_reflection ->         *)
(* _get_ray_colour of one pixel, one call or return at a time.  stack      *)
(* holds the frames of the calls of _get_ray_colour that have not          *)
(* returned, the driver's call first.                                      *)
(***************************************************************************)
\* The deepest stack the model follows.
MaxStack == 14

Mirror == Material(White, I(0), Rat(1, 8), I(0), I(1), 1)
HalfMirror == Material(Grey, Rat(1, 2), Rat(1, 4), Rat(1, 2), Rat(1, 2), 1)
Matte == Material(Red, Rat(1, 2), Rat(1, 4), I(0), I(0), 1)

\* A camera at the origin that looks along the y axis through a 2 by 2
\* screen at distance 1.
PixelCamera(columns, rows) ==
    [position |-> Vec(0, 0, 0), direction |-> Vec(0, 1, 0),
     screen_distance |-> I(1), screen_width |-> I(2), screen_height |-> I(2),
     screen_columns |-> columns, screen_rows |-> rows]

PixelScene(camera, lights, objects) ==
    [camera |-> camera, default_colour |-> <<Rat(1, 4), Rat(1, 2), I(1)>>,
     ambient_light |-> Grey, lights |-> lights, objects |-> objects]

\* Scenes without a light are seen through four pixels; a scene with a light
\* is seen through the one pixel whose ray runs along the y axis, on which
\* the light is, so that the unit vectors toward the light are values of f64.
TraceScenes ==
    {\* two facing perfect mirrors
     PixelScene(PixelCamera(2, 2), <<>>,
                <<SceneObject(Mirror, Plane(Vec(0, 2, 0), Vec(0, -1, 0))),
                  SceneObject(Mirror, Plane(Vec(0, -2, 0), Vec(0, 1, 0)))>>),
     \* two facing perfect mirrors, the camera and a light between them
     PixelScene(PixelCamera(1, 1), <<LightSource(White, Vec(0, 1, 0))>>,
                <<SceneObject(Mirror, Plane(Vec(0, 2, 0), Vec(0, -1, 0))),
                  SceneObject(Mirror, Plane(Vec(0, -2, 0), Vec(0, 1, 0)))>>),
     \* a half mirror facing a matte wall, a light between them
     PixelScene(PixelCamera(1, 1), <<LightSource(White, Vec(0, 1, 0))>>,
                <<SceneObject(HalfMirror, Plane(Vec(0, 2, 0), Vec(0, -1, 0))),
                  SceneObject(Matte, Plane(Vec(0, -2, 0), Vec(0, 1, 0)))>>),
     \* one half mirror in the open, lit
     PixelScene(PixelCamera(1, 1), <<LightSource(Red, Vec(0, 1, 0))>>,
                <<SceneObject(HalfMirror, Plane(Vec(0, 2, 0), Vec(0, -1, 0)))>>),
     \* a mirror ceiling that the lower pixels miss
     PixelScene(PixelCamera(2, 2), <<>>,
                <<SceneObject(Mirror, Plane(Vec(0, 0, 1), Vec(0, 0, -1)))>>)}

Pixels(camera) ==
    [x : 0 .. (camera.screen_columns - 1), y : 0 .. (camera.screen_rows - 1)]

Frame(ray, min_distance, num_bounces) ==
    [ray |-> ray, min_distance |-> min_distance, num_bounces |-> num_bounces,
     status |-> "call", hit |-> None, object_colour |-> FVecZeros,
     reflection |-> None, ret |-> None]

Top == stack[Len(stack)]
SetTop(f) == [stack EXCEPT ![Len(stack)] = f]

TraceInit ==
    /\ pc = "trace"
    /\ scene \in TraceScenes
    /\ input \in Pixels(scene.camera)
    /\ stack = <<Frame(get_ray(scene.camera, input.x, input.y), I(0), 0)>>
    /\ result = None
    /\ overflowed = FALSE
    /\ output = None
    /\ IdleCast

\* _get_ray_colour: self._get_intersection(&ray, min_distance)
Intersect ==
    /\ pc = "trace" /\ Top.status = "call"
    /\ stack' = SetTop([Top EXCEPT !.status = "intersected",
                                    !.hit = _get_intersection(scene, Top.ray,
                                                              Top.min_distance)])
    /\ UNCHANGED <<pc, scene, input, output, hit, colour, calls, result,
                   overflowed>>

\* _get_ray_colour: no intersection, .unwrap_or(self.default_colour)
Miss ==
    /\ pc = "trace" /\ Top.status = "intersected"
    /\ ~Top.hit.some
    /\ stack' = SetTop([Top EXCEPT !.status = "ret",
                                    !.ret = Some(scene.default_colour)])
    /\ UNCHANGED <<pc, scene, input, output, hit, colour, calls, result,
                   overflowed>>

\* _get_ray_colour: let object_colour = self._get_surface_point_colour(&i, &m)
ShadePoint ==
    /\ pc = "trace" /\ Top.status = "intersected"
    /\ Top.hit.some
    /\ stack' = SetTop([Top EXCEPT !.status = "shaded",
                                    !.object_colour =
                                        _get_surface_point_colour(scene, Top.hit.val[1],
                                                                  Top.hit.val[2])])
    /\ UNCHANGED <<pc, scene, input, output, hit, colour, calls, result,
                   overflowed>>

\* _get_reflection returns FVec::zeros(); _get_ray_colour returns
\* object_colour + reflection
StopReflecting ==
    /\ pc = "trace" /\ Top.status = "shaded"
    /\ ReflectionStops(Top.hit.val[2], Top.num_bounces)
    /\ stack' = SetTop([Top EXCEPT !.status = "ret",
                                    !.reflection = Some(FVecZeros),
                                    !.ret = Some(VAdd(Top.object_colour, FVecZeros))])
    /\ UNCHANGED <<pc, scene, input, output, hit, colour, calls, result,
                   overflowed>>

\* _get_reflection calls _get_ray_colour(&reflected_ray, 0.0001, num_bounces + 1)
Reflect ==
    /\ pc = "trace" /\ Top.status = "shaded"
    /\ ~ReflectionStops(Top.hit.val[2], Top.num_bounces)
    /\ Len(stack) < MaxStack
    /\ stack' = Append(SetTop([Top EXCEPT !.status = "wait"]),
                        Frame(ReflectedRay(Top.hit.val[1], Top.ray), Rat(1, 10000),
                              U8Increment(Top.num_bounces)))
    /\ overflowed' = (overflowed \/ U8Overflows(Top.num_bounces))
    /\ UNCHANGED <<pc, scene, input, output, hit, colour, calls, result>>

\* The return of a recursive call into _get_reflection and on out of the
\* caller: material.k_reflect * &reflected_ray_colour, object_colour + reflection
ReturnToCaller ==
    /\ pc = "trace" /\ Top.status = "ret"
    /\ Len(stack) > 1
    /\ LET caller == stack[Len(stack) - 1]
           reflection == VScale(caller.hit.val[2].k_reflect, Top.ret.val)
       IN  stack' = [SubSeq(stack, 1, Len(stack) - 1) EXCEPT ![Len(stack) - 1] =
                        [caller EXCEPT !.status = "ret",
                                       !.reflection = Some(reflection),
                                       !.ret = Some(VAdd(caller.object_colour, reflection))]]
    /\ UNCHANGED <<pc, scene, input, output, hit, colour, calls, result,
                   overflowed>>

\* The return of the driver's call _get_ray_colour(&ray, 0.0, 0)
ReturnToDriver ==
    /\ pc = "trace" /\ Top.status = "ret"
    /\ Len(stack) = 1
    /\ result' = Top.ret
    /\ stack' = <<>>
    /\ pc' = "done"
    /\ UNCHANGED <<scene, input, output, hit, colour, calls,
                   overflowed>>

TraceNext ==
    \/ Intersect \/ Miss \/ ShadePoint \/ StopReflecting \/ Reflect
    \/ ReturnToCaller \/ ReturnToDriver

SpecTrace == TraceInit /\ [][TraceNext]_vars

\* What is left to do in the frame at depth k of the chain: a frame that has
\* not yet decided to recurse outweighs everything a deeper frame can do.
FrameWeight(k) ==
    LET w == 4 * (MAX_BOUNCES + 2 - k + 1)
    IN  CASE stack[k].status = "call" -> w
          [] stack[k].status = "intersected" -> w - 1
          [] stack[k].status = "shaded" -> w - 2
          [] OTHER -> 1

RECURSIVE WeightUpTo(_)
WeightUpTo(k) == IF k = 0 THEN 0 ELSE WeightUpTo(k - 1) + FrameWeight(k)

TraceMeasure == WeightUpTo(Len(stack))

\* A call chain that has not returned to the driver can take its next step.
TraceNotStuck ==
    pc = "trace" =>
        /\ stack # <<>>
        /\ Top.status \in {"call", "intersected", "shaded", "ret"}
        /\ \A k \in 1 .. (Len(stack) - 1) : stack[k].status = "wait" /\ stack[k].hit.some
        /\ Top.status = "shaded" => Top.hit.some
        /\ (Top.status = "shaded" /\ ~ReflectionStops(Top.hit.val[2], Top.num_bounces)) =>
              Len(stack) < MaxStack

\* C1: the driver's call _get_ray_colour(ray, 0, 0) returns, also between
\* facing perfect mirrors: every call or return of the chain strictly
\* decreases a natural number, the chain can always take its next step until
\* it has returned a colour to the driver, it is never deeper than
\* MAX_BOUNCES + 2 calls, and a call that hits a surface with num_bounces
\* above the ceiling (or with k_reflect = 0) returns without recursing, with
\* the zero vector as its reflection.
C1_ChainTerminates ==
    /\ [][TraceMeasure' < TraceMeasure]_vars
    /\ [](TraceMeasure >= 0)
    /\ [](TraceNotStuck)
    /\ [](pc = "done" => result.some /\ stack = <<>>)
    /\ [](Len(stack) <= MAX_BOUNCES + 2)
    /\ [](\A k \in DOMAIN stack :
            (/\ stack[k].status = "ret"
             /\ stack[k].hit.some
             /\ (stack[k].num_bounces > MAX_BOUNCES
                    \/ stack[k].hit.val[2].k_reflect = I(0))) =>
                /\ k = Len(stack)
                /\ stack[k].reflection = Some(FVecZeros)
                /\ stack[k].ret = Some(stack[k].object_colour))

\* Between two perfect mirrors the innermost call, the twelfth, has hit a
\* mirror and returns with a zero reflection.
C1_Witness ==
    /\ pc = "trace"
    /\ \A k \in DOMAIN scene.objects : scene.objects[k].material.k_reflect = I(1)
    /\ Len(stack) = MAX_BOUNCES + 2
    /\ \A k \in 1 .. (Len(stack) - 1) : stack[k].status = "wait"
    /\ Top.status = "ret"
    /\ Top.hit.some
    /\ Top.reflection = Some(FVecZeros)

\* C6 as stated: num_bounces never exceeds MAX_BOUNCES in a call of
\* _get_ray_colour, and num_bounces + 1 never overflows.
C6_BouncesAtMostCeiling ==
    /\ \A k \in DOMAIN stack : stack[k].num_bounces <= MAX_BOUNCES
    /\ ~overflowed

\* C6 amended: num_bounces never exceeds MAX_BOUNCES + 1 in a call of
\* _get_ray_colour (the call with MAX_BOUNCES + 1 is made and is the last of
\* its chain), the k-th nested call has num_bounces = k - 1, and
\* num_bounces + 1 never overflows.
C6_BouncesAtMostCeilingPlusOne ==
    /\ \A k \in DOMAIN stack :
          /\ stack[k].num_bounces <= MAX_BOUNCES + 1
          /\ stack[k].num_bounces = k - 1
    /\ ~overflowed

\* A call of _get_ray_colour with num_bounces = MAX_BOUNCES + 1 = 11.
C6_Witness ==
    /\ pc = "trace"
    /\ stack # <<>>
    /\ Top.num_bounces = MAX_BOUNCES + 1
    /\ Top.status = "call"

=============================================================================
